---- MODULE Spec2Model ----
(***************************************************************************)
(* A model of the date-polling scheduler (src/src/scheduler.rs,            *)
(* src/src/message_shim.rs).                                               *)
(*                                                                         *)
(* One Scheduler (one poll) is shared by concurrently running handler      *)
(* tasks.  A task is one invocation of a public async method:              *)
(*   get_response (a ResponseSession, normal or blackout mode),            *)
(*   repost, or the external close action.                                 *)
(* Every step that takes a lock of the Scheduler (RwLock read or write) or *)
(* performs a transport call on a shared surface is one atomic action; the *)
(* steps of different tasks interleave freely, as they do on the           *)
(* multi-threaded executor that runs the handlers.                         *)
(***************************************************************************)
EXTENDS Integers, Sequences, FiniteSets, TLC

(* ------------------------------ bounds --------------------------------- *)

\* number of candidate dates of the poll
NumDates == 2
\* number of distinct users that interact with the poll
NumUsers == 2

\* RESP_TIMEOUT (src: 14 minutes), in ticks of the session's clock
RESP_TIMEOUT == 2
\* the longest time, in ticks, one wait and the handling of the interaction
\* it ended can take
MaxElapsed == 2

\* largest day-count limit handed to Scheduler::new
MaxLimit == 4
\* largest number of weeks to skip handed to Scheduler::new
MaxSkip == 1
\* largest number of lines of a detailed tally handed to show_details
MaxLines == 3

\* the handler invocations of the model : two tasks, which run concurrently
Tasks == {1, 2}
\* UserId values
Users == 1 .. NumUsers

(* ---------------------------- configuration ---------------------------- *)

\* Scheduler.owner
owner == 1

\* the RoleId a poll may be restricted to
Role == "role"

\* user.has_role(ctx, guild, role): the platform's answer; odd ids hold it
has_role(user) == user % 2 = 1

\* Scheduler.dates: the fixed candidate sequence (day ordinals)
dates == [i \in 1 .. NumDates |-> 100 + i]

DateSet == {dates[i] : i \in 1 .. NumDates}

\* Scheduler.message: the handle of the primary surface
message == 0

\* handle of a repost message that exists before the model starts
OldRepost == 1

\* handle of the Message handed to repost() by task t (ids are unique)
NewMessage(t) == 1 + t

Handles == {message, OldRepost} \cup {NewMessage(t) : t \in Tasks}

Normal == "Normal"
Blackout == "Blackout"

(* ---------------------------- poll creation ---------------------------- *)

\* chrono::Weekday has seven values ; the weekday of a day ordinal
DaysPerWeek == 7
Weekdays == 0 .. DaysPerWeek - 1
weekday(day) == day % DaysPerWeek

\* the limit is taken as it is given
KeepLimit(limit, days) == limit

\* let limit = limit - (limit % days.len() as i64)
RoundLimit(limit, days) == limit - (limit % Cardinality(days))

RECURSIVE Take(_, _, _)
\* DateRule::daily(day).filter(|day| days.contains(&day.weekday())).take(n)
Take(day, n, days) ==
    IF n = 0 THEN << >>
    ELSE IF weekday(day) \in days
         THEN << day >> \o Take(day + 1, n - 1, days)
         ELSE Take(day + 1, n, days)

\* today.succ_opt().unwrap(), plus Duration::weeks(skip) when skip is given
\* (skip : Option<i64> as a set of at most one element)
start_date(today, skip) ==
    (today + 1) + (IF skip = {} THEN 0
                   ELSE DaysPerWeek * (CHOOSE w \in skip : TRUE))

\* the dates field Scheduler::new builds
new_dates(today, limit, skip, days) ==
    Take(start_date(today, skip), RoundLimit(limit, days), days)

\* the call of Scheduler::new that built the poll of the other sections
Built == [pc |-> "built", today |-> 100, limit |-> NumDates, skip |-> {},
          days |-> {weekday(dates[i]) : i \in 1 .. NumDates},
          dates |-> dates]

(* ------------------------- HashMap operations -------------------------- *)

\* a map rebuilt from the new entry alone : the sibling entries are lost
insert_clobber(map, k, v) == [x \in {k} |-> v]

\* HashMap::insert : add the key or replace its value
insert(map, k, v) ==
    [x \in (DOMAIN map) \cup {k} |-> IF x = k THEN v ELSE map[x]]

\* HashMap::remove : drop the key if present
remove(map, k) ==
    [x \in (DOMAIN map) \ {k} |-> map[x]]

EmptyMap == [x \in {} |-> {}]

(* ----------------------------- Aggregator ------------------------------ *)

RECURSIVE SortedSeq(_)
\* users.iter().sorted() : ascending sequence of a set of ids
SortedSeq(S) ==
    IF S = {} THEN << >>
    ELSE LET m == CHOOSE x \in S : \A y \in S : x <= y
         IN  << m >> \o SortedSeq(S \ {m})

\* get_responses : the "Responded" field, count and mentioned ids
get_responses(rs) ==
    [count |-> Cardinality(DOMAIN rs), users |-> DOMAIN rs]

RECURSIVE FilterDates(_, _)
\* the filter_map of get_results : candidate dates not blacked out, with the
\* set of users whose Response contains the date, in candidate order
FilterDates(i, st) ==
    IF i > NumDates THEN << >>
    ELSE LET rest == FilterDates(i + 1, st)
         IN  IF dates[i] \in st.blackout_dates
             THEN rest
             ELSE << [date  |-> dates[i],
                      users |-> {u \in DOMAIN st.responses :
                                    dates[i] \in st.responses[u]}] >> \o rest

\* results.iter().map(len).max().unwrap_or(0)
MaxCount(results) ==
    IF results = << >> THEN 0
    ELSE LET counts == {Cardinality(results[i].users) : i \in DOMAIN results}
         IN  CHOOSE m \in counts : \A c \in counts : c <= m

\* a line is marked whenever its count equals the maximum, zero included
FormatLineZeroMax(r, max, detailed) ==
    LET count == Cardinality(r.users)
    IN  [date   |-> r.date,
         count  |-> count,
         marked |-> (count = max),
         users  |-> IF detailed /\ r.users # {}
                    THEN SortedSeq(r.users) ELSE << >>]

\* one formatted line of get_results: underlined (marked) or plain, the
\* count, and in detailed mode the sorted mentions
FormatLine(r, max, detailed) ==
    LET count == Cardinality(r.users)
    IN  [date   |-> r.date,
         count  |-> count,
         marked |-> (max > 0 /\ count = max),
         users  |-> IF detailed /\ r.users # {}
                    THEN SortedSeq(r.users) ELSE << >>]

\* get_results(detailed) over a snapshot st = (responses, blackout_dates)
get_results(st, detailed) ==
    LET results == FilterDates(1, st)
        max     == MaxCount(results)
    IN  [i \in DOMAIN results |-> FormatLine(results[i], max, detailed)]

\* the payload update_message hands to MessageShim::edit
Payload(responded, results, isClosed) ==
    [responded |-> responded,
     results   |-> results,
     text      |-> IF isClosed THEN "Final results" ELSE "",
     actions   |-> IF isClosed THEN {"details"} ELSE {"response", "details"}]

\* a message just posted for a repost : it carries no render of the poll yet
NoContent == [responded |-> get_responses(EmptyMap), results |-> << >>,
              text |-> "new", actions |-> {}]

\* a surface whose message was deleted (or never existed)
Deleted == [responded |-> get_responses(EmptyMap), results |-> << >>,
            text |-> "deleted", actions |-> {}]

(* --------------------------- DetailsProjector -------------------------- *)

\* the size ceiling of one message
Ceiling == 2000

\* the lengths line.len() the lines of a detailed tally are drawn from
LineLens == {999, 1000, 1999, 2000}

RECURSIVE Size(_)
\* content.len() : every line was pushed with a '\n' after it
Size(content) ==
    IF content = << >> THEN 0
    ELSE Head(content).len + 1 + Size(Tail(content))

RECURSIVE ChunkPastCeiling(_, _, _)
\* the content is flushed only when the next line would pass the ceiling
ChunkPastCeiling(lines, messages, content) ==
    IF lines = << >>
    THEN [messages |-> messages, last_content |-> content]
    ELSE LET line  == Head(lines)
             flush == Size(content) + line.len > Ceiling
         IN  ChunkPastCeiling(Tail(lines),
                   IF flush THEN Append(messages, content) ELSE messages,
                   (IF flush THEN << >> ELSE content) \o << line >>)

RECURSIVE Chunk(_, _, _)
\* the for loop of show_details over the lines left, with the messages
\* pushed and the content accumulated so far
Chunk(lines, messages, content) ==
    IF lines = << >>
    THEN [messages |-> messages, last_content |-> content]
    ELSE LET line  == Head(lines)
             flush == Size(content) + line.len >= Ceiling
         IN  Chunk(Tail(lines),
                   IF flush THEN Append(messages, content) ELSE messages,
                   (IF flush THEN << >> ELSE content) \o << line >>)

\* show_details before it is called
NoDetails == [pc |-> "idle", user |-> 0, results |-> << >>,
              messages |-> << >>, last_content |-> << >>, sent |-> << >>]

(* -------------------------- ResponseSession UI ------------------------- *)

\* the delete row is added whatever allow_delete says
create_dm_buttons_delete(response, bl, resp_type, allow_delete) ==
    [content  |-> "",
     options  |-> {i - 1 : i \in {j \in 1 .. NumDates :
                       ~(resp_type = Normal /\ dates[j] \in bl)}},
     selected |-> {i - 1 : i \in {j \in 1 .. NumDates :
                       /\ ~(resp_type = Normal /\ dates[j] \in bl)
                       /\ dates[j] \in response}},
     actions  |-> {"select", "submit", "delete"}
                  \cup (IF resp_type # Blackout
                        THEN {"select_all", "clear_all"} ELSE {})]

\* create_dm_buttons : the select menu (option values are 0-based indices
\* into dates), the buttons, and the delete row
create_dm_buttons(response, bl, resp_type, allow_delete) ==
    [content  |-> "",
     options  |-> {i - 1 : i \in {j \in 1 .. NumDates :
                       ~(resp_type = Normal /\ dates[j] \in bl)}},
     selected |-> {i - 1 : i \in {j \in 1 .. NumDates :
                       /\ ~(resp_type = Normal /\ dates[j] \in bl)
                       /\ dates[j] \in response}},
     actions  |-> {"select", "submit"}
                  \cup (IF resp_type # Blackout
                        THEN {"select_all", "clear_all"} ELSE {})
                  \cup (IF allow_delete THEN {"delete"} ELSE {})]

\* m.content(text).components(|c| c) : a terminal notice with no actions
Notice(text) ==
    [content |-> text, options |-> {}, selected |-> {}, actions |-> {}]

NoSurface == Notice("")

\* every candidate date is taken, blacked out or not
select_all_unfiltered(bl) == DateSet

\* the "select_all" arm : all candidate dates minus the blackout set
select_all(bl) == {d \in DateSet : d \notin bl}

\* the delivered values are taken as the dates themselves
select_values(selections) == selections

\* the "select" arm : exactly the dates at the delivered indices
select(selections) == {dates[index + 1] : index \in selections}

NoCall == [op |-> "none", user |-> 0, resp_type |-> Normal, new |-> {},
           old |-> {}]

NoUpd == [target |-> message, responses |-> get_responses(EmptyMap),
          results |-> << >>, closed |-> FALSE, version |-> 0]

(* ------------------------------- state --------------------------------- *)

VARIABLES
    \* Scheduler fields
    blackout_dates,  \* RwLock<HashSet<NaiveDate>>
    responses,       \* RwLock<HashMap<UserId, Response>>
    closed,          \* bool
    group,           \* Option<RoleId> as a set of at most one element
    repost_message,  \* RwLock<Option<MessageShim>> as a set of at most one
    \* transport
    surface,         \* handle -> content last applied (or Deleted)
    transport,       \* the transport calls issued to shared surfaces
    \* tasks
    pc,              \* task -> control location
    call,            \* task -> the call it runs and its arguments
    response,        \* task -> the session's draft (get_response's local)
    allow_delete,    \* task -> get_response's local
    ephemeral,       \* task -> the session's own rendered surface
    state,           \* task -> ResponseSession state
    upd,             \* task -> locals of update_messages / update_message
    clock,           \* task -> Instant::now() of the session, counted from
                     \*         the instant its expiration was computed
    wait,            \* task -> the Duration the session handed to .timeout()
    \* calls that stand apart from the tasks
    creation,        \* Scheduler::new : its arguments and the dates it built
    details,         \* show_details : its locals and the follow-ups sent
    \* history
    version,         \* number of mutations committed so far
    committedAt,     \* task -> version its own mutation produced (0: none)
    openedAt,        \* task -> version at which its session was opened
    last_action      \* task -> the last interaction its session processed :
                     \*         whether it was select_all, with the blackout
                     \*         set in PollState at that moment, and the
                     \*         values (indices) a select delivered

vars == << blackout_dates, responses, closed, group, repost_message,
           surface, transport, pc, call, response, allow_delete,
           ephemeral, state, upd, clock, wait, creation, details, version,
           committedAt, openedAt, last_action >>

poll == << blackout_dates, responses, closed, group, repost_message >>
sessionLocals == << response, allow_delete, ephemeral, state, clock, wait >>
history == << version, committedAt, openedAt, last_action >>
standalone == << creation, details >>

Other == [id |-> "other", blackout |-> {}, values |-> {}]

Snapshot == [responses |-> responses, blackout_dates |-> blackout_dates]

\* what update_message would render from the current state
CurrentPayload ==
    Payload(get_responses(responses), get_results(Snapshot, FALSE), closed)

TasksInit ==
    /\ pc = [t \in Tasks |-> "idle"]
    /\ call = [t \in Tasks |-> NoCall]
    /\ response = [t \in Tasks |-> {}]
    /\ allow_delete = [t \in Tasks |-> FALSE]
    /\ ephemeral = [t \in Tasks |-> NoSurface]
    /\ state = [t \in Tasks |-> "None"]
    /\ upd = [t \in Tasks |-> NoUpd]
    /\ clock = [t \in Tasks |-> 0]
    /\ wait = [t \in Tasks |-> 0]
    /\ version = 0
    /\ committedAt = [t \in Tasks |-> 0]
    /\ openedAt = [t \in Tasks |-> 0]
    /\ last_action = [t \in Tasks |-> Other]
    /\ transport = {}

\* the poll was built by Scheduler::new and no details view is asked for
NoStandalone ==
    /\ creation = Built
    /\ details = NoDetails

\* The poll as Scheduler::new builds it (empty blackout set and responses,
\* open), or as it is loaded again from its saved file with a repost stored;
\* the surfaces show the render of that state.
Init ==
    /\ blackout_dates = {}
    /\ responses = EmptyMap
    /\ closed = FALSE
    /\ group \in {{}, {Role}}
    /\ repost_message \in {{}, {OldRepost}}
    /\ surface = [h \in Handles |->
                    IF h = message \/ h \in repost_message
                    THEN Payload(get_responses(EmptyMap),
                                 get_results([responses |-> EmptyMap,
                                              blackout_dates |-> {}], FALSE),
                                 FALSE)
                    ELSE Deleted]
    /\ TasksInit

(* --------------------------- update_messages --------------------------- *)

\* the mutation returns without calling update_messages
SkipUpdate(t) ==
    /\ pc' = [pc EXCEPT ![t] = "done"]
    /\ upd' = upd

\* the call of update_messages : update_message(&self.message) comes first
StartUpdate(t) ==
    /\ pc' = [pc EXCEPT ![t] = "get_responses"]
    /\ upd' = [upd EXCEPT ![t] = NoUpd]

\* where a task continues when update_messages returns
AfterUpdate(t) ==
    IF call[t].op = "get_response" /\ state[t] = "Deleted"
    THEN "notice" ELSE "done"

\* update_message : let responses = self.get_responses()
UpdResponded(t) ==
    /\ pc[t] = "get_responses"
    /\ upd' = [upd EXCEPT ![t].responses = get_responses(responses),
                          ![t].version = version]
    /\ pc' = [pc EXCEPT ![t] = "get_results"]
    /\ UNCHANGED << poll, surface, transport, call, sessionLocals, history,
                    standalone >>

\* update_message : let results = self.get_results(false) ;
\* let closed = self.closed
UpdResults(t) ==
    /\ pc[t] = "get_results"
    /\ upd' = [upd EXCEPT ![t].results = get_results(Snapshot, FALSE),
                          ![t].closed = closed]
    /\ pc' = [pc EXCEPT ![t] = "edit"]
    /\ UNCHANGED << poll, surface, transport, call, sessionLocals, history,
                    standalone >>

\* what a successful MessageShim::edit leaves on the surfaces
edit(sf, h, payload) == [sf EXCEPT ![h] = payload]

\* update_messages returns when the edit of the primary surface fails
EditOrReturn(t, ok) ==
    /\ pc[t] = "edit"
    /\ LET h       == upd[t].target
           success == ok /\ surface[h] # Deleted
       IN  /\ surface' = IF success
                         THEN edit(surface, h,
                                   Payload(upd[t].responses, upd[t].results,
                                           upd[t].closed))
                         ELSE surface
           /\ transport' = transport \cup
                  {[op |-> "edit", to |-> h, by |-> t,
                    version |-> upd[t].version]}
           /\ pc' = [pc EXCEPT ![t] = IF h = message /\ success
                                      THEN "read_repost"
                                      ELSE AfterUpdate(t)]
           /\ upd' = IF h = message /\ success
                     THEN upd ELSE [upd EXCEPT ![t] = NoUpd]
    /\ UNCHANGED << poll, call, sessionLocals, history, standalone >>

\* update_message : message.edit(..).await.map_err(log).ok() ; the edit of a
\* deleted message fails, and any edit may fail at the transport
Edit(t, ok) ==
    /\ pc[t] = "edit"
    /\ LET h       == upd[t].target
           success == ok /\ surface[h] # Deleted
       IN  /\ surface' = IF success
                         THEN edit(surface, h,
                                   Payload(upd[t].responses, upd[t].results,
                                           upd[t].closed))
                         ELSE surface
           /\ transport' = transport \cup
                  {[op |-> "edit", to |-> h, by |-> t,
                    version |-> upd[t].version]}
           /\ pc' = [pc EXCEPT ![t] = IF h = message THEN "read_repost"
                                      ELSE AfterUpdate(t)]
           /\ upd' = IF h = message THEN upd ELSE [upd EXCEPT ![t] = NoUpd]
    /\ UNCHANGED << poll, call, sessionLocals, history, standalone >>

\* update_messages : let repost = *self.repost_message.read().unwrap()
ReadRepost(t) ==
    /\ pc[t] = "read_repost"
    /\ IF repost_message = {}
       THEN /\ pc' = [pc EXCEPT ![t] = AfterUpdate(t)]
            /\ upd' = [upd EXCEPT ![t] = NoUpd]
       ELSE /\ pc' = [pc EXCEPT ![t] = "get_responses"]
            /\ upd' = [upd EXCEPT ![t].target =
                          CHOOSE m \in repost_message : TRUE]
    /\ UNCHANGED << poll, surface, transport, call, sessionLocals, history,
                    standalone >>

(* ------------------------- PollState mutations ------------------------- *)

\* the bookkeeping of one committed mutation by task t
Committed(t) ==
    /\ version' = version + 1
    /\ committedAt' = [committedAt EXCEPT ![t] = version + 1]
    /\ UNCHANGED << openedAt, last_action, standalone >>

\* add_response : insert under the write lock, save, update_messages
add_response(t, user, resp) ==
    /\ responses' = insert(responses, user, resp)
    /\ UNCHANGED << blackout_dates, closed, group, repost_message >>
    /\ Committed(t)
    /\ StartUpdate(t)

\* delete_response : remove under the write lock, save, update_messages
delete_response(t, user) ==
    /\ responses' = remove(responses, user)
    /\ UNCHANGED << blackout_dates, closed, group, repost_message >>
    /\ Committed(t)
    /\ StartUpdate(t)

\* the committed Responses lose the dates that are newly blacked out
set_blackout_pruning(t, resp) ==
    /\ blackout_dates' = resp
    /\ responses' = [u \in DOMAIN responses |-> responses[u] \ resp]
    /\ UNCHANGED << closed, group, repost_message >>
    /\ Committed(t)
    /\ StartUpdate(t)

\* set_blackout : replace the set under the write lock, save, update_messages
set_blackout(t, resp) ==
    /\ blackout_dates' = resp
    /\ UNCHANGED << responses, closed, group, repost_message >>
    /\ Committed(t)
    /\ StartUpdate(t)

(* --------------------------- ResponseSession --------------------------- *)

\* the seeding of get_response : the committed Response and true, or the
\* default and false ; in blackout mode the blackout set and false
Seed(user, resp_type) ==
    IF resp_type = Normal
    THEN IF user \in DOMAIN responses
         THEN [response |-> responses[user], allow_delete |-> TRUE]
         ELSE [response |-> {}, allow_delete |-> FALSE]
    ELSE [response |-> blackout_dates, allow_delete |-> FALSE]

\* expiration - Instant::now() on the session's clock, on which expiration
\* is RESP_TIMEOUT ; the subtraction of Instants saturates at zero
Remaining(now) == IF now < RESP_TIMEOUT THEN RESP_TIMEOUT - now ELSE 0

\* the buttons that start a session : "response" on a shared surface that
\* shows it, "blackout" on the owner's details view
Offered(user, resp_type) ==
    IF resp_type = Normal
    THEN \E h \in Handles : "response" \in surface[h].actions
    ELSE user = owner

\* the session is opened whether or not the requester holds the role
OpenSessionUnchecked(t, user, resp_type, d) ==
    /\ pc[t] = "idle"
    /\ Offered(user, resp_type)
    /\ call' = [call EXCEPT ![t] = [op |-> "get_response", user |-> user,
                                    resp_type |-> resp_type, new |-> {},
                                    old |-> {}]]
    /\ LET seed == Seed(user, resp_type)
       IN  /\ response' = [response EXCEPT ![t] = seed.response]
           /\ allow_delete' = [allow_delete EXCEPT ![t] = seed.allow_delete]
           /\ ephemeral' = [ephemeral EXCEPT ![t] =
                  create_dm_buttons(seed.response, blackout_dates,
                                    resp_type, seed.allow_delete)]
           /\ state' = [state EXCEPT ![t] = "Presenting"]
           /\ pc' = [pc EXCEPT ![t] = "await"]
           /\ clock' = [clock EXCEPT ![t] = d]
           /\ wait' = [wait EXCEPT ![t] = Remaining(d)]
    /\ openedAt' = [openedAt EXCEPT ![t] = version]
    /\ UNCHANGED << poll, surface, transport, upd, version, committedAt,
                    last_action, standalone >>

\* get_response up to the loop : the group check and its refusal, the
\* seeding of the draft, the first render of the selection surface, the
\* expiration, and the first wait, entered d ticks after the expiration was
\* computed (get_interaction_response is awaited in between)
OpenSession(t, user, resp_type, d) ==
    /\ pc[t] = "idle"
    /\ Offered(user, resp_type)
    /\ call' = [call EXCEPT ![t] = [op |-> "get_response", user |-> user,
                                    resp_type |-> resp_type, new |-> {},
                                    old |-> {}]]
    /\ IF group # {} /\ ~has_role(user)
       THEN /\ ephemeral' = [ephemeral EXCEPT ![t] =
                                Notice("Only role may respond")]
            /\ state' = [state EXCEPT ![t] = "Refused"]
            /\ pc' = [pc EXCEPT ![t] = "done"]
            /\ UNCHANGED << response, allow_delete, clock, wait >>
       ELSE LET seed == Seed(user, resp_type)
            IN  /\ response' = [response EXCEPT ![t] = seed.response]
                /\ allow_delete' = [allow_delete EXCEPT ![t] =
                                       seed.allow_delete]
                /\ ephemeral' = [ephemeral EXCEPT ![t] =
                       create_dm_buttons(seed.response, blackout_dates,
                                         resp_type, seed.allow_delete)]
                /\ state' = [state EXCEPT ![t] = "Presenting"]
                /\ pc' = [pc EXCEPT ![t] = "await"]
                /\ clock' = [clock EXCEPT ![t] = d]
                /\ wait' = [wait EXCEPT ![t] = Remaining(d)]
    /\ openedAt' = [openedAt EXCEPT ![t] = version]
    /\ UNCHANGED << poll, surface, transport, upd, version, committedAt,
                    last_action, standalone >>

\* an interaction with custom_id id is delivered to the session of task t :
\* the session is awaiting, its rendered surface carries the control, and
\* the interaction comes before the timeout of the wait has run out
Delivered(t, id) ==
    /\ pc[t] = "await"
    /\ id \in ephemeral[t].actions
    /\ wait[t] > 0

\* the new dates are added to the draft the session held
RerenderMerged(t, draft, action, d) ==
    /\ clock' = [clock EXCEPT ![t] = clock[t] + d]
    /\ wait' = [wait EXCEPT ![t] = Remaining(clock[t] + d)]
    /\ response' = [response EXCEPT ![t] = response[t] \cup draft]
    /\ last_action' = [last_action EXCEPT ![t] = action]
    /\ ephemeral' = [ephemeral EXCEPT ![t] =
           create_dm_buttons(response[t] \cup draft, blackout_dates,
                             call[t].resp_type, allow_delete[t])]
    /\ UNCHANGED << poll, surface, transport, pc, call, allow_delete, state,
                    upd, version, committedAt, openedAt, standalone >>

\* the end of a loop iteration : the draft is replaced, the selection
\* surface re-rendered in place, and the next wait entered with the time
\* that remains ; d ticks went by since the previous wait was entered
Rerender(t, draft, action, d) ==
    /\ clock' = [clock EXCEPT ![t] = clock[t] + d]
    /\ wait' = [wait EXCEPT ![t] = Remaining(clock[t] + d)]
    /\ response' = [response EXCEPT ![t] = draft]
    /\ last_action' = [last_action EXCEPT ![t] = action]
    /\ ephemeral' = [ephemeral EXCEPT ![t] =
           create_dm_buttons(draft, blackout_dates, call[t].resp_type,
                             allow_delete[t])]
    /\ UNCHANGED << poll, surface, transport, pc, call, allow_delete, state,
                    upd, version, committedAt, openedAt, standalone >>

\* the "select" arm
Select(t, selections, d) ==
    /\ Delivered(t, "select")
    /\ selections \subseteq ephemeral[t].options
    /\ Rerender(t, select(selections),
                [id |-> "other", blackout |-> {}, values |-> selections], d)

\* the "select_all" arm
SelectAll(t, d) ==
    /\ Delivered(t, "select_all")
    /\ Rerender(t, select_all(blackout_dates),
                [id |-> "select_all", blackout |-> blackout_dates,
                 values |-> {}], d)

\* the "clear_all" arm
ClearAll(t, d) ==
    /\ Delivered(t, "clear_all")
    /\ Rerender(t, {}, Other, d)

\* the "submit" arm, the break, and the commit that follows the loop
Submit(t) ==
    /\ Delivered(t, "submit")
    /\ ephemeral' = [ephemeral EXCEPT ![t] = Notice("Response submitted")]
    /\ state' = [state EXCEPT ![t] = "Submitted"]
    /\ IF call[t].resp_type = Normal
       THEN add_response(t, call[t].user, response[t])
       ELSE set_blackout(t, response[t])
    /\ UNCHANGED << surface, transport, call, response, allow_delete, clock,
                    wait >>

\* the "delete" arm : delete_response, whose update_messages runs before
\* the notice
Delete(t) ==
    /\ Delivered(t, "delete")
    /\ state' = [state EXCEPT ![t] = "Deleted"]
    /\ delete_response(t, call[t].user)
    /\ UNCHANGED << surface, transport, call, response, allow_delete,
                    ephemeral, clock, wait >>

\* the "delete" arm after delete_response returned : the notice, return
DeleteNotice(t) ==
    /\ pc[t] = "notice"
    /\ ephemeral' = [ephemeral EXCEPT ![t] = Notice("Response deleted")]
    /\ pc' = [pc EXCEPT ![t] = "done"]
    /\ UNCHANGED << poll, surface, transport, call, response, allow_delete,
                    state, clock, wait, upd, history, standalone >>

\* the deadline passes and the draft is committed as a submit would
TimeoutCommits(t) ==
    /\ pc[t] = "await"
    /\ ephemeral' = [ephemeral EXCEPT ![t] = Notice("Response timed out")]
    /\ state' = [state EXCEPT ![t] = "TimedOut"]
    /\ IF call[t].resp_type = Normal
       THEN add_response(t, call[t].user, response[t])
       ELSE set_blackout(t, response[t])
    /\ clock' = [clock EXCEPT ![t] = clock[t] + wait[t]]
    /\ UNCHANGED << surface, transport, call, response, allow_delete, wait >>

\* the None branch of the await : the timeout of the wait ran out with no
\* interaction
Timeout(t) ==
    /\ pc[t] = "await"
    /\ clock' = [clock EXCEPT ![t] = clock[t] + wait[t]]
    /\ ephemeral' = [ephemeral EXCEPT ![t] = Notice("Response timed out")]
    /\ state' = [state EXCEPT ![t] = "TimedOut"]
    /\ pc' = [pc EXCEPT ![t] = "done"]
    /\ UNCHANGED << poll, surface, transport, call, response, allow_delete,
                    wait, upd, history, standalone >>

\* a transport call on the session's own interaction fails inside the loop
\* (defer, the re-render, the timeout notice) : expect() panics and the task
\* unwinds with its draft
Abort(t) ==
    /\ pc[t] = "await"
    /\ state' = [state EXCEPT ![t] = "Aborted"]
    /\ pc' = [pc EXCEPT ![t] = "done"]
    /\ UNCHANGED << poll, surface, transport, call, response, allow_delete,
                    ephemeral, clock, wait, upd, history, standalone >>

(* ------------------------------- repost -------------------------------- *)

\* what a successful MessageShim::delete leaves on the surfaces
delete(sf, h) == [sf EXCEPT ![h] = Deleted]

\* delete_repost is called whether or not a new message is given
CallRepostAlwaysDeletes(t, new) ==
    /\ pc[t] = "idle"
    /\ new \in {{}, {NewMessage(t)}}
    /\ call' = [call EXCEPT ![t] =
                   [op |-> "repost", user |-> owner, resp_type |-> Normal,
                    new |-> new, old |-> repost_message]]
    /\ pc' = [pc EXCEPT ![t] = "delete_repost"]
    /\ surface' = IF new # {}
                  THEN [surface EXCEPT ![NewMessage(t)] = NoContent]
                  ELSE surface
    /\ UNCHANGED << poll, transport, sessionLocals, upd, history, standalone >>

\* repost(message) is called ; with a new message delete_repost comes first
\* and copies the stored handle out under the lock (the stored one is left
\* as it is), without one the call goes straight to the store
CallRepost(t, new) ==
    /\ pc[t] = "idle"
    /\ new \in {{}, {NewMessage(t)}}
    /\ call' = [call EXCEPT ![t] =
                   [op |-> "repost", user |-> owner, resp_type |-> Normal,
                    new |-> new,
                    old |-> IF new # {} THEN repost_message ELSE {}]]
    /\ pc' = [pc EXCEPT ![t] = IF new # {} THEN "delete_repost" ELSE "store"]
    /\ surface' = IF new # {}
                  THEN [surface EXCEPT ![NewMessage(t)] = NoContent]
                  ELSE surface
    /\ UNCHANGED << poll, transport, sessionLocals, upd, history, standalone >>

\* delete_repost : if let Some(message) = repost.take() the transport delete
\* is issued ; it is best-effort, an error is logged
DeleteRepost(t, ok) ==
    /\ pc[t] = "delete_repost"
    /\ IF call[t].old = {}
       THEN UNCHANGED << surface, transport >>
       ELSE LET m       == CHOOSE x \in call[t].old : TRUE
                success == ok /\ surface[m] # Deleted
            IN  /\ surface' = IF success THEN delete(surface, m) ELSE surface
                /\ transport' = transport \cup
                       {[op |-> "delete", to |-> m, by |-> t,
                         version |-> version]}
    /\ pc' = [pc EXCEPT ![t] = "store"]
    /\ UNCHANGED << poll, call, sessionLocals, upd, history, standalone >>

\* repost : the stored handle is replaced under the write lock, save, and
\* with a new message update_messages
StoreRepost(t) ==
    /\ pc[t] = "store"
    /\ repost_message' = call[t].new
    /\ IF call[t].new # {}
       THEN StartUpdate(t)
       ELSE /\ pc' = [pc EXCEPT ![t] = "done"]
            /\ upd' = upd
    /\ UNCHANGED << blackout_dates, responses, closed, group, surface,
                    transport, call, sessionLocals, history, standalone >>

(* -------------------------------- close -------------------------------- *)

\* the external close action : the flag flips and one update_messages runs
Close(t) ==
    /\ pc[t] = "idle"
    /\ ~closed
    /\ closed' = TRUE
    /\ call' = [call EXCEPT ![t] = [op |-> "close", user |-> owner,
                                    resp_type |-> Normal, new |-> {},
                                    old |-> {}]]
    /\ StartUpdate(t)
    /\ UNCHANGED << blackout_dates, responses, group, repost_message,
                    surface, transport, sessionLocals, history, standalone >>

(* ----------------------------- Scheduler::new -------------------------- *)

\* Scheduler::new : the dates are built from the arguments ; the other
\* fields are the defaults the poll starts from
New ==
    /\ creation.pc = "args"
    /\ creation' = [creation EXCEPT
                        !.pc = "built",
                        !.dates = new_dates(creation.today, creation.limit,
                                            creation.skip, creation.days)]
    /\ UNCHANGED << poll, surface, transport, pc, call, sessionLocals, upd,
                    details, history >>

(* ------------------------------ show_details --------------------------- *)

\* show_details up to the first follow-up : defer (unwrap panics when it
\* fails), the detailed tally, and the for loop with its assert
ShowDetails(ok) ==
    /\ details.pc = "idle"
    /\ details' =
           IF ok /\ \A i \in DOMAIN details.results :
                       details.results[i].len < Ceiling
           THEN LET c == Chunk(details.results, << >>, << >>)
                IN  [details EXCEPT !.pc = "send",
                                    !.messages = c.messages,
                                    !.last_content = c.last_content]
           ELSE [details EXCEPT !.pc = "panic"]
    /\ UNCHANGED << poll, surface, transport, pc, call, sessionLocals, upd,
                    creation, history >>

\* for content in messages : one ephemeral follow-up each ; expect panics
\* when the send fails
SendMessage(ok) ==
    /\ details.pc = "send"
    /\ Len(details.sent) < Len(details.messages)
    /\ details' =
           IF ok
           THEN [details EXCEPT !.sent = Append(@,
                    [content |-> details.messages[Len(details.sent) + 1],
                     actions |-> {}])]
           ELSE [details EXCEPT !.pc = "panic"]
    /\ UNCHANGED << poll, surface, transport, pc, call, sessionLocals, upd,
                    creation, history >>

\* the follow-up with last_content, which carries the blackout button when
\* the requester is the owner
SendLast(ok) ==
    /\ details.pc = "send"
    /\ Len(details.sent) = Len(details.messages)
    /\ details' =
           IF ok
           THEN [details EXCEPT
                    !.pc = "done",
                    !.sent = Append(@,
                       [content |-> details.last_content,
                        actions |-> IF details.user = owner
                                    THEN {"blackout"} ELSE {}])]
           ELSE [details EXCEPT !.pc = "panic"]
    /\ UNCHANGED << poll, surface, transport, pc, call, sessionLocals, upd,
                    creation, history >>

(* ---------------------------- specifications --------------------------- *)

\* the steps of update_messages ; canFail : the outcomes the transport has
Update(t, canFail) ==
    \/ UpdResponded(t)
    \/ UpdResults(t)
    \/ \E ok \in canFail : Edit(t, ok)
    \/ ReadRepost(t)

\* the steps of a ResponseSession ; elapsed : the times a wait and the
\* handling of its interaction may take
Session(t, elapsed) ==
    \/ \E user \in Users, resp_type \in {Normal, Blackout}, d \in elapsed :
           OpenSession(t, user, resp_type, d)
    \/ \E selections \in SUBSET (0 .. NumDates - 1), d \in elapsed :
           Select(t, selections, d)
    \/ \E d \in elapsed : SelectAll(t, d)
    \/ \E d \in elapsed : ClearAll(t, d)
    \/ Submit(t)
    \/ Delete(t)
    \/ DeleteNotice(t)
    \/ Timeout(t)
    \/ Abort(t)

\* the steps of repost
Repost(t) ==
    \/ \E new \in {{}, {NewMessage(t)}} : CallRepost(t, new)
    \/ \E ok \in BOOLEAN : DeleteRepost(t, ok)
    \/ StoreRepost(t)

\* the clock is left out : every wait and every handling takes no time
NoTime == {0}

\* Sessions of both modes and the close action run concurrently on a poll
\* without a repost ; transport calls on the shared surface may fail.
Next ==
    \E t \in Tasks : Session(t, NoTime) \/ Close(t) \/ Update(t, BOOLEAN)

InitSessions == Init /\ repost_message = {} /\ NoStandalone

Spec == InitSessions /\ [][Next]_vars

\* The same sessions, in the executions in which no transport call fails.
NextConverge ==
    \E t \in Tasks : Session(t, NoTime) \/ Update(t, {TRUE})

InitConverge == Init /\ group = {} /\ NoStandalone

SpecConverge == InitConverge /\ [][NextConverge]_vars

\* repost calls, with and without a new message, run concurrently with each
\* other and with the update_messages of a close, on an unrestricted poll.
NextRepost ==
    \E t \in Tasks : Repost(t) \/ Close(t) \/ Update(t, BOOLEAN)

InitRepost == Init /\ group = {} /\ NoStandalone

SpecRepost == InitRepost /\ [][NextRepost]_vars

\* repost calls run concurrently with each other ; every update_messages is
\* that of a repost call.
NextReplace ==
    \E t \in Tasks : Repost(t) \/ Update(t, BOOLEAN)

SpecReplace == InitRepost /\ [][NextReplace]_vars

\* The tally as a function of the poll : the poll is loaded from its saved
\* file with any responses and any blackout set over the candidate dates,
\* and one repost call runs its update_messages on it.
InitTally ==
    /\ blackout_dates \in SUBSET DateSet
    /\ responses \in UNION {[S -> SUBSET DateSet] : S \in SUBSET Users}
    /\ closed = FALSE
    /\ group = {}
    /\ repost_message = {}
    /\ surface = [h \in Handles |->
                    IF h = message THEN CurrentPayload ELSE Deleted]
    /\ NoStandalone
    /\ TasksInit

NextTally ==
    \E t \in {1} : Repost(t) \/ Update(t, BOOLEAN)

SpecTally == InitTally /\ [][NextTally]_vars

\* Scheduler::new as a function of its arguments : any weekday for today,
\* a limit of at least one day, with or without weeks to skip, and any
\* non-empty set of allowed weekdays.
InitNew ==
    /\ Init /\ group = {} /\ repost_message = {}
    /\ creation \in [pc    : {"args"},
                      today : Weekdays,
                      limit : 1 .. MaxLimit,
                      skip  : {{}} \cup {{w} : w \in 0 .. MaxSkip},
                      days  : (SUBSET Weekdays) \ {{}},
                      dates : {<< >>}]
    /\ details = NoDetails

NextNew == New

SpecNew == InitNew /\ [][NextNew]_vars

\* show_details as a function of the detailed tally : the tally is any
\* sequence of at most MaxLines lines, each known by its place and its
\* length, asked for by any user.
InitDetails ==
    /\ Init /\ group = {} /\ repost_message = {} /\ creation = Built
    /\ \E n \in 0 .. MaxLines : \E f \in [1 .. n -> LineLens] :
       \E user \in Users :
           details = [NoDetails EXCEPT
                         !.user = user,
                         !.results = [i \in 1 .. n |->
                                         [no |-> i, len |-> f[i]]]]

NextDetails ==
    \E ok \in BOOLEAN : ShowDetails(ok) \/ SendMessage(ok) \/ SendLast(ok)

SpecDetails == InitDetails /\ [][NextDetails]_vars

\* One session with its clock : every wait and every handling of an
\* interaction takes up to MaxElapsed ticks. The poll holds no response, or
\* one of the owner.
InitDeadline ==
    /\ blackout_dates = {}
    /\ responses \in {EmptyMap, insert(EmptyMap, owner, DateSet)}
    /\ closed = FALSE
    /\ group = {}
    /\ repost_message = {}
    /\ surface = [h \in Handles |->
                    IF h = message THEN CurrentPayload ELSE Deleted]
    /\ NoStandalone
    /\ TasksInit

NextDeadline ==
    \E t \in {1} : Session(t, 0 .. MaxElapsed) \/ Update(t, BOOLEAN)

SpecDeadline == InitDeadline /\ [][NextDeadline]_vars

\* One session commits on a poll that has a repost stored and holds no
\* response, or one of the owner ; every transport call of the update that
\* follows may fail.
InitFanout ==
    /\ blackout_dates = {}
    /\ responses \in {EmptyMap, insert(EmptyMap, owner, DateSet)}
    /\ closed = FALSE
    /\ group = {}
    /\ repost_message = {OldRepost}
    /\ surface = [h \in Handles |->
                    IF h = message \/ h \in repost_message
                    THEN CurrentPayload ELSE Deleted]
    /\ NoStandalone
    /\ TasksInit

NextFanout ==
    \E t \in {1} : Session(t, NoTime) \/ Update(t, BOOLEAN)

SpecFanout == InitFanout /\ [][NextFanout]_vars

(* ------------------------------- claims -------------------------------- *)

IsSession(t) == call[t].op = "get_response"
IsNormal(t) == IsSession(t) /\ call[t].resp_type = Normal
IsBlackout(t) == IsSession(t) /\ call[t].resp_type = Blackout

\* the step in which task t commits its mutation
Commits(t) == committedAt[t] = 0 /\ committedAt'[t] > 0

\* the normal-mode sessions of respondent u that have committed
Committers(u) ==
    {t \in Tasks : IsNormal(t) /\ call[t].user = u /\ committedAt[t] > 0}

LastCommitter(u) ==
    CHOOSE t \in Committers(u) :
        \A o \in Committers(u) : committedAt[o] <= committedAt[t]

\* C1: whatever the interleaving of the sessions' add_response and
\* delete_response calls, the responses map holds for each respondent the
\* effect of the last commit made for that respondent: the Response that
\* session submitted if it was an add, no entry if it was a remove (and no
\* entry for a respondent nobody committed for); no commit loses or alters
\* the entry of another respondent.
C1_LastCommitWins ==
    \A u \in Users :
        IF Committers(u) = {}
        THEN u \notin DOMAIN responses
        ELSE LET t == LastCommitter(u)
             IN  IF state[t] = "Submitted"
                 THEN u \in DOMAIN responses /\ responses[u] = response[t]
                 ELSE u \notin DOMAIN responses

\* two sessions of different respondents have committed, the second while
\* the update of the first was still running, and both entries are held
C1_Witness ==
    \E t1, t2 \in Tasks :
        /\ IsNormal(t1) /\ IsNormal(t2)
        /\ call[t1].user # call[t2].user
        /\ committedAt[t1] = 1 /\ committedAt[t2] = 2
        /\ pc[t1] = "edit" /\ upd[t1].version = 1
        /\ state[t1] = "Submitted" /\ state[t2] = "Submitted"
        /\ response[t1] # {} /\ response[t2] # {}
        /\ DOMAIN responses = {call[t1].user, call[t2].user}

\* C2: while the poll is closed no commit of a normal-mode session is
\* accepted (the responses map stays as it is, whenever the session was
\* opened), and a blackout-mode submit is still applied.
C2_ClosedRejectsNormal ==
    [][closed =>
          \A t \in Tasks :
              /\ (IsNormal(t) /\ Commits(t) => responses' = responses)
              /\ (IsBlackout(t) /\ Commits(t) =>
                      blackout_dates' = response[t])]_vars

\* C3: every committed mutation of responses or blackout_dates is followed
\* by an update_messages of the committing task whose payload for the
\* primary surface is computed from state read after the mutation: no
\* payload of the task is older than its commit, and once the task is past
\* the primary edit such a payload has been issued.
C3_RenderFollowsCommit ==
    \A t \in Tasks :
        IsSession(t) /\ committedAt[t] > 0 =>
            /\ \A r \in transport :
                   r.by = t /\ r.op = "edit" => r.version >= committedAt[t]
            /\ pc[t] \in {"get_results", "edit"} =>
                   upd[t].version >= committedAt[t]
            /\ pc[t] \in {"read_repost", "notice", "done"} =>
                   \E r \in transport :
                       /\ r.by = t /\ r.op = "edit" /\ r.to = message
                       /\ r.version >= committedAt[t]

\* an add and a remove have each been committed and then rendered by
\* their own task, the add's payload computed after the remove as well
C3_Witness ==
    \E t1, t2 \in Tasks :
        /\ pc[t1] = "done" /\ pc[t2] = "done"
        /\ state[t1] = "Submitted" /\ state[t2] = "Deleted"
        /\ committedAt[t1] = 1 /\ committedAt[t2] = 2
        /\ [op |-> "edit", to |-> message, by |-> t1, version |-> 2]
               \in transport
        /\ [op |-> "edit", to |-> message, by |-> t2, version |-> 2]
               \in transport

\* no task is inside a handler : commits have stopped and no surface
\* update is pending
Quiescent == \A t \in Tasks : pc[t] \in {"idle", "done"}

\* C4: once commits have stopped and every pending surface update has
\* completed, with no transport call failing, the content last applied to
\* the primary surface, and to the repost surface when one is stored, is the
\* aggregate of the final committed state.
C4_Convergence ==
    Quiescent =>
        /\ surface[message] = CurrentPayload
        /\ \A m \in repost_message : surface[m] = CurrentPayload

\* C5: a session that sees its deadline pass ends in TimedOut from
\* Presenting whatever its draft holds, without any commit (responses and
\* blackout_dates are left as they are, no transport call on a shared
\* surface is made by it), and its surface becomes a notice without actions.
C5_TimeoutDiscardsDraft ==
    /\ [](\A t \in Tasks :
            state[t] = "TimedOut" =>
                /\ committedAt[t] = 0
                /\ \A r \in transport : r.by # t
                /\ ephemeral[t] = Notice("Response timed out")
                /\ ephemeral[t].actions = {})
    /\ [][\A t \in Tasks :
            state[t] # "TimedOut" /\ state'[t] = "TimedOut" =>
                /\ state[t] = "Presenting"
                /\ responses' = responses
                /\ blackout_dates' = blackout_dates
                /\ version' = version]_vars

\* a session timed out holding a draft that its edits had built
C5_Witness ==
    \E t \in Tasks :
        /\ state[t] = "TimedOut"
        /\ version = 0
        /\ response[t] = DateSet

\* C6: in a normal-mode session a submit that follows select_all directly
\* commits for the respondent all candidate dates minus the blackout set
\* that PollState held when select_all was processed.
C6_SelectAllThenSubmit ==
    [][\A t \in Tasks :
          /\ IsNormal(t)
          /\ state[t] = "Presenting" /\ state'[t] = "Submitted"
          /\ last_action[t].id = "select_all"
          => /\ call[t].user \in DOMAIN responses'
             /\ responses'[call[t].user]
                    = DateSet \ last_action[t].blackout]_vars

\* the session was opened while the blackout set was empty, the owner then
\* blacked a date out, and select_all and submit committed the other dates
C6_Witness ==
    \E t \in Tasks :
        /\ IsNormal(t) /\ state[t] = "Submitted"
        /\ openedAt[t] = 0
        /\ last_action[t].id = "select_all"
        /\ last_action[t].blackout # {}
        /\ last_action[t].blackout # DateSet
        /\ committedAt[t] = 2
        /\ responses[call[t].user] = DateSet \ last_action[t].blackout

\* C7: a session opened with allow_delete = false (the respondent had no
\* committed Response when it was opened, or the session is in blackout
\* mode) shows no delete action on any render of its surface and never
\* reaches Deleted.
C7_DeleteNotOffered ==
    /\ [](\A t \in Tasks :
            IsSession(t) /\ ~allow_delete[t] =>
                /\ "delete" \notin ephemeral[t].actions
                /\ state[t] # "Deleted")
    /\ [][\A t \in Tasks :
            pc[t] = "idle" /\ pc'[t] = "await" =>
                (allow_delete'[t] <=>
                    /\ call'[t].resp_type = Normal
                    /\ call'[t].user \in DOMAIN responses)]_vars

\* a session without the delete action has re-rendered its surface after an
\* edit, while the respondent's entry, committed since by another session,
\* exists
C7_Witness ==
    \E t \in Tasks :
        /\ IsNormal(t) /\ pc[t] = "await" /\ ~allow_delete[t]
        /\ response[t] # {}
        /\ ephemeral[t].selected # {}
        /\ call[t].user \in DOMAIN responses

IsRepost(t) == call[t].op = "repost"

\* a transport call has been issued
Issued(op, to) == \E r \in transport : r.op = op /\ r.to = to
IssuedBy(op, to, t) == [op |-> op, to |-> to, by |-> t] \in
                           {[op |-> r.op, to |-> r.to, by |-> r.by] :
                                r \in transport}

\* C8: when repost is called with a new message while a repost surface is
\* stored, no render is issued to the new surface before the transport
\* delete of the old one has been issued, the store makes the new message
\* the stored handle, and once the call has returned a render to the new
\* surface has been issued by its update_messages.
C8_ReplaceRepost ==
    /\ [](\A t \in Tasks :
            IsRepost(t) /\ call[t].new # {} /\ call[t].old # {} =>
                \A n \in call[t].new, o \in call[t].old :
                    /\ Issued("edit", n) => IssuedBy("delete", o, t)
                    /\ pc[t] = "done" => IssuedBy("edit", n, t))
    /\ [][\A t \in Tasks :
            pc[t] = "store" /\ pc'[t] # "store" /\ call[t].new # {} =>
                repost_message' = call[t].new]_vars

C10_Tally ==
    \A t \in Tasks :
        pc[t] = "edit" =>
            LET lines  == upd[t].results
                kept   == {i \in 1 .. NumDates : dates[i] \notin blackout_dates}
                pos(d) == CHOOSE i \in 1 .. NumDates : dates[i] = d
                n(d)   == Cardinality({u \in DOMAIN responses :
                                          d \in responses[u]})
            IN  /\ Len(lines) = Cardinality(DateSet \ blackout_dates)
                /\ {lines[i].date : i \in DOMAIN lines} = {dates[i] : i \in kept}
                /\ \A i, j \in DOMAIN lines :
                       i < j => pos(lines[i].date) < pos(lines[j].date)
                /\ \A i \in DOMAIN lines :
                       /\ lines[i].count = n(lines[i].date)
                       /\ lines[i].users = << >>
                       /\ lines[i].marked <=>
                              /\ lines[i].count > 0
                              /\ \A j \in DOMAIN lines :
                                     lines[j].count <= lines[i].count

\* a tally with a blacked-out date left out, computed while a respondent's
\* Response still holds that date, and with its only line marked
C10_Witness ==
    \E t \in Tasks :
        /\ pc[t] = "edit"
        /\ blackout_dates = {dates[1]}
        /\ \E u \in DOMAIN responses : responses[u] = DateSet
        /\ Len(upd[t].results) = NumDates - 1
        /\ \A i \in DOMAIN upd[t].results : upd[t].results[i].marked

\* the reference date plus the skipped weeks of the creation call
SkippedTo ==
    creation.today + (IF creation.skip = {} THEN 0
                      ELSE DaysPerWeek * (CHOOSE w \in creation.skip : TRUE))

\* C11: whatever the limit, the weeks to skip and the non-empty set of
\* allowed weekdays, the number of dates Scheduler::new produces is a
\* multiple of the number of allowed weekdays (the largest one that does not
\* exceed the limit), the weekday of every date is an allowed one, and the
\* dates are strictly increasing and all strictly after the reference date
\* plus the skipped weeks.
C11_WholeWeeksOfAllowedDays ==
    creation.pc = "built" =>
        LET ds == creation.dates
            n  == Cardinality(creation.days)
        IN  /\ Len(ds) % n = 0
            /\ Len(ds) <= creation.limit
            /\ creation.limit - Len(ds) < n
            /\ \A i \in DOMAIN ds : weekday(ds[i]) \in creation.days
            /\ \A i, j \in DOMAIN ds : i < j => ds[i] < ds[j]
            /\ \A i \in DOMAIN ds : ds[i] > SkippedTo

\* a poll built with a limit that is no multiple of the number of allowed
\* weekdays, after skipped weeks : the limit was rounded down to two dates
C11_Witness ==
    /\ creation.pc = "built"
    /\ creation.skip # {} /\ creation.skip # {0}
    /\ Cardinality(creation.days) = 2
    /\ creation.limit = 3
    /\ Len(creation.dates) = 2
    /\ creation.dates[1] > SkippedTo + 1

\* C12: for every limit and every non-empty set of allowed weekdays, the
\* dates Scheduler::new produces are not empty.
C12_DatesNonEmpty ==
    creation.pc = "built" => creation.dates # << >>

RECURSIVE Flatten(_)
\* the lines of a sequence of chunks, in order
Flatten(chunks) ==
    IF chunks = << >> THEN << >>
    ELSE Head(chunks) \o Flatten(Tail(chunks))

\* the chunks show_details built : the messages, then last_content
Chunks == Append(details.messages, details.last_content)

\* C13: when every line of the detailed tally is shorter than the ceiling,
\* no chunk show_details builds is longer than the ceiling, every chunk is
\* made of whole lines, the lines of the chunks taken in order are exactly
\* the lines of the tally, and the chunks are sent in that order, the one
\* holding last_content last.
C13_Pagination ==
    details.pc \in {"send", "done"} =>
        LET sent == [i \in DOMAIN details.sent |-> details.sent[i].content]
        IN  /\ \A i \in DOMAIN details.results :
                   details.results[i].len < Ceiling
            /\ \A i \in DOMAIN Chunks : Size(Chunks[i]) <= Ceiling
            /\ Flatten(Chunks) = details.results
            /\ Len(sent) <= Len(Chunks)
            /\ \A i \in DOMAIN sent : sent[i] = Chunks[i]
            /\ details.pc = "done" => sent = Chunks

\* a tally of three lines was sent as two chunks, the first of two lines
\* and exactly as long as the ceiling
C13_Witness ==
    /\ details.pc = "done"
    /\ Len(details.results) = 3
    /\ Len(details.sent) = 2
    /\ Len(details.sent[1].content) = 2
    /\ Size(details.sent[1].content) = Ceiling
    /\ details.sent[2].content = details.last_content

\* C14: in every reachable state, after any sequence of sessions and
\* commits in either mode, every date of every committed Response and every
\* date of blackout_dates is one of the candidate dates.
C14_DatesFromCandidates ==
    /\ blackout_dates \subseteq DateSet
    /\ \A u \in DOMAIN responses : responses[u] \subseteq DateSet

\* a normal-mode session and a blackout-mode session have both committed
\* dates that their select interactions delivered as indices
C14_Witness ==
    \E t1, t2 \in Tasks :
        /\ IsNormal(t1) /\ IsBlackout(t2)
        /\ state[t1] = "Submitted" /\ state[t2] = "Submitted"
        /\ last_action[t1].values # {} /\ last_action[t2].values # {}
        /\ responses[call[t1].user] = select(last_action[t1].values)
        /\ blackout_dates = select(last_action[t2].values)

\* task t runs a session of a requester who is not in the group the poll is
\* restricted to
NotAllowed(t) ==
    IsSession(t) /\ group # {} /\ ~has_role(call[t].user)

\* C15: on a poll restricted to a group, the session of a requester who is
\* not a member is refused at once with a notice: no selection surface is
\* rendered (no option, no action), the session is never in Presenting,
\* Submitted, Deleted or TimedOut, it commits nothing and triggers no
\* update, and the step that refuses it leaves responses and blackout_dates
\* as they are.
C15_NonMemberRefused ==
    /\ [](\A t \in Tasks :
            NotAllowed(t) =>
                /\ state[t] = "Refused"
                /\ pc[t] = "done"
                /\ ephemeral[t] = Notice("Only role may respond")
                /\ ephemeral[t].options = {} /\ ephemeral[t].actions = {}
                /\ committedAt[t] = 0
                /\ \A r \in transport : r.by # t)
    /\ [][\A t \in Tasks :
            pc[t] = "idle" /\ NotAllowed(t)' =>
                /\ responses' = responses
                /\ blackout_dates' = blackout_dates
                /\ surface' = surface]_vars

\* a non-member was refused on a restricted poll on which a member has
\* committed a Response
C15_Witness ==
    \E t, o \in Tasks :
        /\ NotAllowed(t) /\ state[t] = "Refused"
        /\ state[o] = "Submitted"
        /\ call[o].user \in DOMAIN responses

\* the waits of the sessions end at the one deadline computed when the
\* session started : a wait entered at clock c lasts RESP_TIMEOUT - c, or no
\* time at all once the deadline is behind ; a session that timed out did so
\* at the deadline, or at the first wait entered after it ; the interaction
\* that ended a session otherwise was received in a wait entered before it
DeadlineKept ==
    \A t \in Tasks :
        /\ pc[t] = "await" =>
               /\ clock[t] < RESP_TIMEOUT => clock[t] + wait[t] = RESP_TIMEOUT
               /\ clock[t] >= RESP_TIMEOUT => wait[t] = 0
        /\ state[t] = "TimedOut" =>
               /\ clock[t] >= RESP_TIMEOUT
               /\ wait[t] > 0 => clock[t] = RESP_TIMEOUT
        /\ state[t] \in {"Submitted", "Deleted"} => clock[t] < RESP_TIMEOUT

\* the handler of the session of task t has returned or unwound after the
\* session was entered
Ended(t) == IsSession(t) /\ pc[t] = "done" /\ state[t] # "Refused"

\* C16: the deadline of a session is computed once, every wait for the next
\* interaction lasts at most the time left to that deadline however many
\* edits were made, no interaction is awaited past it, and a session ends in
\* one of Submitted, Deleted and TimedOut.
C16_AbsoluteDeadline ==
    /\ DeadlineKept
    /\ \A t \in Tasks :
           Ended(t) => state[t] \in {"Submitted", "Deleted", "TimedOut"}

\* the step is an intermediate edit of the session of task t : the session
\* stays in Presenting and its draft, its surface or its clock changes
Edits(t) ==
    /\ state[t] = "Presenting" /\ state'[t] = "Presenting"
    /\ << response[t], ephemeral[t], last_action[t], clock[t] >>'
           # << response[t], ephemeral[t], last_action[t], clock[t] >>

\* C17: select, select_all and clear_all change the private draft of their
\* session only: such a step leaves responses, blackout_dates and the
\* shared surfaces as they are and starts no update_messages; select makes
\* the draft exactly the dates at the delivered indices, whatever the draft
\* held before, clear_all makes it empty, select_all makes it the candidate
\* dates that are not blacked out; a session commits only when it leaves
\* Presenting, and a submit commits the draft.
C17_EditsTouchDraftOnly ==
    /\ [](\A t \in Tasks :
            state[t] = "Presenting" =>
                /\ pc[t] = "await"
                /\ committedAt[t] = 0
                /\ \A r \in transport : r.by # t)
    /\ [][\A t \in Tasks :
            /\ Edits(t) =>
                  /\ responses' = responses
                  /\ blackout_dates' = blackout_dates
                  /\ version' = version
                  /\ surface' = surface /\ transport' = transport
                  /\ pc'[t] = "await" /\ upd' = upd
                  /\ last_action'[t].id = "other" =>
                        response'[t] =
                            {dates[i + 1] : i \in last_action'[t].values}
                  /\ last_action'[t].id = "select_all" =>
                        response'[t] = DateSet \ blackout_dates
            /\ IsSession(t) /\ Commits(t) =>
                  /\ state[t] = "Presenting"
                  /\ state'[t] \in {"Submitted", "Deleted"}
                  /\ state'[t] = "Submitted" /\ IsNormal(t) =>
                        responses'[call[t].user] = response[t]
                  /\ state'[t] = "Submitted" /\ IsBlackout(t) =>
                        blackout_dates' = response[t]]_vars

\* a session seeded with the respondent's committed dates holds, after a
\* select that delivered one index, that one date only, while the committed
\* Response is as it was
C17_Witness ==
    \E t \in Tasks :
        /\ IsNormal(t) /\ state[t] = "Presenting" /\ allow_delete[t]
        /\ responses[call[t].user] = DateSet
        /\ last_action[t].values = {0}
        /\ response[t] = {dates[1]}

\* C18: while repost replaces the repost surface, update_messages uses the
\* old handle before the transport delete of the old surface is issued, or
\* the new handle: no edit is issued to a repost surface whose transport
\* delete has been issued.
C18_RepostAtomic ==
    [][\A t \in Tasks :
          pc[t] = "edit" /\ pc'[t] # "edit" /\ upd[t].target # message =>
              ~Issued("delete", upd[t].target)]_vars

\* C19: every payload update_message builds is the render of one state of
\* the poll: there are one responses map and one blackout set of which the
\* Responded field shows the respondents and the Results tally counts the
\* dates.
C19_ConsistentSnapshot ==
    \A t \in Tasks :
        pc[t] = "edit" =>
            \E m \in [upd[t].responses.users -> SUBSET DateSet],
               bl \in SUBSET DateSet :
                /\ upd[t].responses = get_responses(m)
                /\ upd[t].results =
                       get_results([responses |-> m, blackout_dates |-> bl],
                                   FALSE)

\* the update_messages of task t is past its read of the stored repost
PastPrimary(t) ==
    \/ pc[t] \in {"notice", "done"} /\ committedAt[t] > 0
    \/ pc[t] \in {"get_responses", "get_results", "edit"}
           /\ upd[t].target # message

\* C20: the surfaces are updated independently: whether the edit of the
\* primary surface succeeds or fails, update_messages goes on to the stored
\* repost and issues its edit, and no edit, failed or not, changes
\* responses, blackout_dates, closed or the stored repost handle.
C20_BestEffortFanout ==
    /\ [](\A t \in Tasks :
            /\ PastPrimary(t) => IssuedBy("edit", message, t)
            /\ pc[t] \in {"notice", "done"} /\ committedAt[t] > 0 =>
                   \A m \in repost_message : IssuedBy("edit", m, t))
    /\ [][\A t \in Tasks :
            pc[t] = "edit" /\ pc'[t] # "edit" =>
                /\ poll' = poll
                /\ version' = version
                /\ upd[t].target = message => pc'[t] = "read_repost"]_vars

\* a session has committed a Response and its update_messages has returned :
\* the edit of the primary surface failed (it still shows the render from
\* before the commit), the repost surface shows the committed state, and the
\* Response is in place
C20_Witness ==
    \E t \in Tasks :
        /\ IsNormal(t) /\ state[t] = "Submitted" /\ pc[t] = "done"
        /\ repost_message = {OldRepost}
        /\ surface[message] # CurrentPayload
        /\ surface[OldRepost] = CurrentPayload
        /\ IssuedBy("edit", message, t)
        /\ responses[call[t].user] = response[t]
        /\ response[t] # {}

\* the step is one of the session of task t : one of its locals, its
\* control location or its history changes
SessionStep(t) ==
    /\ call'[t].op = "get_response"
    /\ << pc[t], call[t], response[t], allow_delete[t], ephemeral[t],
          state[t], upd[t], committedAt[t], openedAt[t], last_action[t],
          clock[t], wait[t] >>'
           # << pc[t], call[t], response[t], allow_delete[t], ephemeral[t],
                state[t], upd[t], committedAt[t], openedAt[t],
                last_action[t], clock[t], wait[t] >>

\* the entry of respondent u is the same in both maps : absent in both, or
\* present in both with the same dates
SameEntry(old, new, u) ==
    /\ u \in DOMAIN old <=> u \in DOMAIN new
    /\ u \in DOMAIN old => old[u] = new[u]

\* C21: no step of a normal-mode session of respondent u changes
\* blackout_dates or the responses entry of another respondent; no step of
\* a blackout-mode session changes responses, so a committed Response keeps
\* a date that the session blacks out; responses and blackout_dates change
\* only in the step in which a session commits.
C21_SessionWritesIsolated ==
    [][/\ \A t \in Tasks :
            SessionStep(t) =>
                /\ call'[t].resp_type = Normal =>
                      /\ blackout_dates' = blackout_dates
                      /\ \A u \in Users \ {call'[t].user} :
                             SameEntry(responses, responses', u)
                /\ call'[t].resp_type = Blackout =>
                      responses' = responses
       /\ responses' # responses \/ blackout_dates' # blackout_dates =>
              \E t \in Tasks : SessionStep(t) /\ Commits(t)]_vars

\* a normal-mode session committed a Response holding the first date,
\* a blackout-mode session then committed a blackout of that date, and the
\* Response still holds it
C21_Witness ==
    \E t \in Tasks, n \in Tasks :
        /\ IsBlackout(t) /\ IsNormal(n)
        /\ 0 < committedAt[n] /\ committedAt[n] < committedAt[t]
        /\ dates[1] \in blackout_dates
        /\ call[n].user \in DOMAIN responses
        /\ dates[1] \in responses[call[n].user]

====
